---------------------------- MODULE Spec2Model ----------------------------
(***************************************************************************)
(* Model of ocr_to_dracor_tei.py: the page resolver (Page, TextRegion),    *)
(* the driver Conversion.create_tei and the two transducers build_front    *)
(* and build_body.                                                         *)
(*                                                                         *)
(* Elements of the output tree are identified by the root element they     *)
(* hang under: etree.Element(..) allocates a new root, etree.SubElement    *)
(* (parent, ..) yields an element with the root of its parent.  xf, the    *)
(* incremental writer, is the sequence of roots handed to xf.write.        *)
(***************************************************************************)
EXTENDS Integers, Sequences, FiniteSets, TLC

\* ------------------------------------------------------------- bounds
MaxPages   == 2      \* files matched by the glob
MaxRegions == 3      \* qualifying TextRegion elements of one page file
MaxOrder   == 3      \* RegionRefIndexed entries of one page file
MaxStream  == 3      \* regions in the resolved lists of all pages of a run
MaxRun     == 4      \* files of a run over one-region pages
MaxLines   == 3      \* TextLine elements of one region
MaxEquivs  == 3      \* TextEquiv elements of one line

\* ---------------------------------------------------------- vocabulary
BODY_MARKER == {"header", "heading", "floating", "credit", "drop-capital"}

\* The body-marker types and the other types build_front / build_body test for,
\* plus one type ("page-number") neither of them knows.
Types ==
    BODY_MARKER \cup
    {"TOC-entry", "signature-mark", "paragraph", "caption", "footnote",
     "catch-word", "other", "page-number"}

\* Region types drawn for the pages of a run.
InputTypes ==
    {"header", "heading", "credit", "paragraph", "caption", "TOC-entry",
     "catch-word", "other"}

\* Outcome of TextRegion.__init__ on a region element: "ok", or the error it
\* raises ("no_lines": get_lines returns [], line[0] raises IndexError;
\* "bad_coords": convert_coordinates raises ValueError).
Geoms == {"ok", "no_lines", "bad_coords"}

RegionIds == 1 .. MaxRegions

\* Sequences over S of length at most n
SeqUpTo(S, n) == UNION {[1 .. k -> S] : k \in 0 .. n}

Range(s) == {s[i] : i \in DOMAIN s}

\* The python value None, for a variable holding a region
NoRegion == [id |-> 0, type |-> "None", text_ok |-> TRUE]

VARIABLES
    pc,            \* position of the run
    file_list,     \* Conversion.file_list: the sorted page identifiers 1..n
    current_file,  \* Conversion.current_file: a page identifier, or End
    page,          \* Conversion.page.text_region_list of the current page
    text_part,     \* Conversion._text_part
    text_region,   \* the loop variable of create_tei's for loops
    idx,           \* position of the running for loop in page
    self,          \* the private fields of Conversion set in __init__
    act_number,    \* create_tei's local act_number
    xf,            \* what has been handed to xf.write, in order
    nel,           \* number of etree.Element roots created so far
    hist,          \* history of the run, for the properties and the inputs
    pg             \* a Page under construction (resolver specification)

vars == <<pc, file_list, current_file, page, text_part, text_region, idx,
          self, act_number, xf, nel, hist, pg>>

\* ------------------------------------------------------------ resolver
\* TextRegion.__init__: fails when the region's geometry cannot be used.
TextRegionRaises(el) == el.geom # "ok"

TextRegionInit(el) == [id |-> el.id, type |-> el.type, text_ok |-> el.text_ok]

\* Page.__init__ line 23: the dict comprehension; a later region with the same
\* id replaces an earlier one.
RECURSIVE DictOf(_)
DictOf(list) ==
    IF list = <<>> THEN <<>>
    ELSE LET n    == Len(list)
             rest == DictOf(SubSeq(list, 1, n - 1))
             keep == SelectSeq(rest, LAMBDA e : e.id # list[n].id)
         IN  Append(keep, list[n])

DictHas(dict, region_id) == \E i \in DOMAIN dict : dict[i].id = region_id

DictGet(dict, region_id) ==
    dict[CHOOSE i \in DOMAIN dict : dict[i].id = region_id]

\* The list comprehension of sort_text_region, one reading-order entry at a
\* time.
RECURSIVE OrderedTextRegions(_, _)
OrderedTextRegions(dict, reading_order) ==
    IF reading_order = <<>> THEN <<>>
    ELSE LET region_id == Head(reading_order)
             rest      == OrderedTextRegions(dict, Tail(reading_order))
         IN  IF DictHas(dict, region_id)
             THEN <<DictGet(dict, region_id)>> \o rest
             ELSE rest

\* A plausible slip: regions the reading order does not name are appended.
sort_text_region_appending(text_region_list, text_region_dict, reading_order) ==
    IF text_region_dict = <<>> THEN text_region_list
    ELSE LET ordered == OrderedTextRegions(text_region_dict, reading_order)
         IN  ordered \o
             SelectSeq(text_region_list,
                       LAMBDA r : \A i \in DOMAIN ordered : ordered[i].id # r.id)

\* A plausible slip: a page without reading order keeps its source order.
sort_text_region_fallback(text_region_list, text_region_dict, reading_order) ==
    IF text_region_dict = <<>> \/ reading_order = <<>> THEN text_region_list
    ELSE OrderedTextRegions(text_region_dict, reading_order)

\* Page.sort_text_region: the new value of Page.text_region_list.
sort_text_region(text_region_list, text_region_dict, reading_order) ==
    IF text_region_dict = <<>> THEN text_region_list
    ELSE OrderedTextRegions(text_region_dict, reading_order)

\* Page.__init__ on a file whose qualifying TextRegion elements are `elements`
\* (document order) and whose RegionRefIndexed entries are `reading_order`.
PageInit(elements, reading_order) ==
    IF \E i \in DOMAIN elements : TextRegionRaises(elements[i])
    THEN [raised |-> TRUE, reading_order |-> reading_order,
          text_region_list |-> <<>>, text_region_dict |-> <<>>]
    ELSE LET list == [i \in DOMAIN elements |-> TextRegionInit(elements[i])]
             dict == DictOf(list)
         IN  [raised |-> FALSE, reading_order |-> reading_order,
              text_region_list |->
                  sort_text_region(list, dict, reading_order),
              text_region_dict |-> dict]


\* ------------------------------------------------------------ elements
\* The python value None, for a variable holding an element
None == [kind |-> "none", n |-> 0]

\* etree.Element(..): the n-th root created in the run
Element(kind, n) == [kind |-> kind, n |-> n]

\* etree.iselement
iselement(e) == e # None

\* etree.SubElement(parent, ..) raises TypeError when parent is None;
\* otherwise the new element hangs under the root of parent.
SubElementRaises(parent) == parent = None

SubElement(parent) == parent

\* xf.write(e): lxml's incremental writer serialises an element as it is at
\* the time of the call and ignores None.
XfWrite(x, e) == IF e = None THEN x ELSE Append(x, e)

\* Conversion.__init__ lines 133-146.  __current_scenario is not assigned
\* there: reading it before build_body assigned it raises AttributeError.
InitFields ==
    [previous_type |-> "None", front |-> None, title_page |-> None,
     is_title_page_created |-> FALSE, div_preface |-> None,
     prologue |-> None, act |-> None, scene |-> None, stage |-> None,
     cast_list |-> None, cast_item |-> None, sp_grp |-> None, sp |-> None,
     set |-> None, current_scenario |-> "unset"]

\* concatenate_lines(text_region) raises when a line's text cannot be read
\* (TextLine.get_text: a TextEquiv without Unicode child).
TextRaises(r) == ~r.text_ok

\* ------------------------------------------------------- build_front
\* The result of one transducer call: the fields as the call left them and
\* whether it raised.
FrontResult(s, raised) == [self |-> s, raised |-> raised]

\* Set previous_type (line 283) unless the branch raised.
FrontDone(s, r) == FrontResult([s EXCEPT !.previous_type = r.type], FALSE)

front_catch_word(s, r) ==
    IF s.is_title_page_created
    THEN LET s1 == [s EXCEPT !.div_preface = SubElement(s.front)]
         IN  IF TextRaises(r) THEN FrontResult(s1, TRUE) ELSE FrontDone(s1, r)
    ELSE LET s1 == IF s.previous_type # "catch-word"
                   THEN [s EXCEPT !.title_page = SubElement(s.front)]
                   ELSE s
         IN  IF SubElementRaises(s1.title_page) \/ TextRaises(r)
             THEN FrontResult(s1, TRUE)
             ELSE FrontDone(s1, r)

front_other(s, r) ==
    LET s1 == IF s.previous_type \notin {"other", "catch-word"}
                 \/ s.div_preface = None
              THEN [s EXCEPT !.div_preface = SubElement(s.front)]
              ELSE s
    IN  IF TextRaises(r) THEN FrontResult(s1, TRUE) ELSE FrontDone(s1, r)

front_toc_entry(s, r) ==
    LET s1 == IF ~(s.previous_type = "TOC-entry"
                   \/ s.previous_type = "signature-mark")
                 \/ s.cast_list = None
              THEN [s EXCEPT !.cast_list = SubElement(s.front)]
              ELSE s
        s2 == [s1 EXCEPT !.cast_item = SubElement(s1.cast_list)]
    IN  IF TextRaises(r) THEN FrontResult(s2, TRUE) ELSE FrontDone(s2, r)

\* signature-mark, footnote and every other type: only locals are assigned
front_rest(s, r) ==
    IF TextRaises(r) THEN FrontResult(s, TRUE) ELSE FrontDone(s, r)

build_front(s, r) ==
    LET s0 == IF s.previous_type = "catch-word" /\ r.type # "catch-word"
              THEN [s EXCEPT !.is_title_page_created = TRUE]
              ELSE s
    IN  CASE r.type = "catch-word" -> front_catch_word(s0, r)
          [] r.type = "other"      -> front_other(s0, r)
          [] r.type = "TOC-entry"  -> front_toc_entry(s0, r)
          [] OTHER                 -> front_rest(s0, r)

\* A plausible slip: the front is written and the phase is left as it is.
write_front_keeps_phase(s, x) ==
    [xf |-> XfWrite(x, s.front), text_part |-> "front"]

\* write_front: the set placeholder is appended, the front is written and
\* the phase becomes body.
write_front(s, x) == [xf |-> XfWrite(x, s.front), text_part |-> "body"]

\* -------------------------------------------------------- build_body
\* The result of one call: the fields, the writer, the act counter and the
\* root count as the call left them, and whether it raised.  When it raised,
\* the caller's act_number keeps its old value (line 205 is not completed).
BodyResult(s, x, a, n, raised) ==
    [self |-> s, xf |-> x, act_number |-> a, nel |-> n, raised |-> raised]

\* The container of lines 326-329, 333-336, 403-406, 411-414
PrologueOrScene(s) == IF iselement(s.prologue) THEN s.prologue ELSE s.scene

\* A plausible slip: the header writes the open prologue and leaves it open.
body_header_keeps_prologue(s, x, r, a, n) ==
    LET x1 == IF iselement(s.prologue) THEN XfWrite(x, s.prologue) ELSE x
        a1 == a + 1
        x2 == IF a1 > 1 THEN XfWrite(x1, s.act) ELSE x1
        s2 == [s EXCEPT !.act = Element("act", n + 1)]
    IN  BodyResult(s2, x2, a1, n + 1, TextRaises(r))

\* lines 295-304
body_header(s, x, r, a, n) ==
    LET x1 == IF iselement(s.prologue) THEN XfWrite(x, s.prologue) ELSE x
        s1 == IF iselement(s.prologue) THEN [s EXCEPT !.prologue = None] ELSE s
        a1 == a + 1
        x2 == IF a1 > 1 THEN XfWrite(x1, s1.act) ELSE x1
        s2 == [s1 EXCEPT !.act = Element("act", n + 1)]
    IN  BodyResult(s2, x2, a1, n + 1, TextRaises(r))

\* A plausible slip: a heading is always taken for the heading of a
\* prologue.
body_heading_as_prologue(s, x, r, a, n) ==
    LET x1 == IF iselement(s.prologue) THEN XfWrite(x, s.prologue) ELSE x
        s1 == [s EXCEPT !.prologue = Element("prologue", n + 1)]
    IN  BodyResult(s1, x1, a, n + 1, TextRaises(r))

\* lines 306-319
body_heading(s, x, r, a, n) ==
    IF s.act = None
    THEN LET x1 == IF iselement(s.prologue) THEN XfWrite(x, s.prologue) ELSE x
             s1 == [s EXCEPT !.prologue = Element("prologue", n + 1)]
         IN  BodyResult(s1, x1, a, n + 1, TextRaises(r))
    ELSE LET s1 == [s EXCEPT !.scene = SubElement(s.act)]
             s2 == [s1 EXCEPT !.cast_list = SubElement(s1.scene)]
         IN  IF TextRaises(r) THEN BodyResult(s1, x, a, n, TRUE)
             ELSE BodyResult(s2, x, a, n, FALSE)

\* lines 321-323
body_toc_entry(s, x, r, a, n) ==
    BodyResult(s, x, a, n, SubElementRaises(s.cast_list) \/ TextRaises(r))

\* lines 325-330 (signature-mark) and 410-418 (footnote)
body_under_prologue_or_scene(s, x, r, a, n) ==
    BodyResult(s, x, a, n,
               SubElementRaises(PrologueOrScene(s)) \/ TextRaises(r))

\* lines 332-343
body_floating(s, x, r, a, n) ==
    IF SubElementRaises(PrologueOrScene(s)) THEN BodyResult(s, x, a, n, TRUE)
    ELSE BodyResult([s EXCEPT !.sp_grp = SubElement(PrologueOrScene(s))],
                    x, a, n, TextRaises(r))

\* lines 345-356
body_credit(s, x, r, a, n) ==
    IF iselement(s.prologue)
    THEN BodyResult([s EXCEPT !.sp = SubElement(s.prologue)],
                    x, a, n, TextRaises(r))
    ELSE IF s.scene = None /\ SubElementRaises(s.act)
    THEN BodyResult(s, x, a, n, TRUE)
    ELSE LET s1 == IF s.scene = None
                   THEN [s EXCEPT !.scene = SubElement(s.act)]
                   ELSE s
         IN  BodyResult([s1 EXCEPT !.sp = SubElement(s1.scene)],
                        x, a, n, TextRaises(r))

\* lines 358-364
body_paragraph(s, x, r, a, n) ==
    IF s.sp = None /\ SubElementRaises(s.scene)
    THEN BodyResult(s, x, a, n, TRUE)
    ELSE LET s1 == IF s.sp = None
                   THEN [s EXCEPT !.sp = SubElement(s.scene)]
                   ELSE s
         IN  BodyResult(s1, x, a, n, TextRaises(r))

\* lines 366-408
body_caption(s, x, r, a, n) ==
    IF s.previous_type = "header"
    THEN IF s.set = None /\ SubElementRaises(s.act)
         THEN BodyResult(s, x, a, n, TRUE)
         ELSE LET s1 == IF s.set = None
                        THEN [s EXCEPT !.set = SubElement(s.act)]
                        ELSE s
              IN  IF TextRaises(r) THEN BodyResult(s1, x, a, n, TRUE)
                  ELSE BodyResult([s1 EXCEPT !.current_scenario = "set"],
                                  x, a, n, FALSE)
    ELSE IF s.previous_type = "caption" /\ s.current_scenario = "unset"
    THEN BodyResult(s, x, a, n, TRUE)
    ELSE IF s.previous_type = "caption" /\ s.current_scenario = "set"
    THEN BodyResult(s, x, a, n, SubElementRaises(s.set) \/ TextRaises(r))
    ELSE IF s.previous_type = "paragraph"
    THEN IF SubElementRaises(s.scene) THEN BodyResult(s, x, a, n, TRUE)
         ELSE LET s1 == [s EXCEPT !.stage = SubElement(s.scene)]
              IN  IF TextRaises(r) THEN BodyResult(s1, x, a, n, TRUE)
                  ELSE BodyResult(
                           [s1 EXCEPT !.current_scenario = "paragraph"],
                           x, a, n, FALSE)
    ELSE IF s.previous_type = "caption" /\ s.current_scenario = "paragraph"
    THEN BodyResult(s, x, a, n, SubElementRaises(s.stage) \/ TextRaises(r))
    ELSE LET parent ==
                 IF s.previous_type \in {"credit", "heading", "scene"}
                 THEN IF s.sp # None THEN s.sp ELSE s.scene
                 ELSE PrologueOrScene(s)
         IN  IF SubElementRaises(parent) \/ TextRaises(r)
             THEN BodyResult(s, x, a, n, TRUE)
             ELSE BodyResult([s EXCEPT !.current_scenario = "normal"],
                             x, a, n, FALSE)

\* lines 420-436
body_catch_word(s, x, r, a, n) ==
    IF s.scene = None
    THEN IF TextRaises(r) THEN BodyResult(s, x, a, n, TRUE)
         ELSE BodyResult(s,
                         XfWrite(XfWrite(x, Element("p", n + 1)),
                                 Element("head", n + 2)),
                         a, n + 2, FALSE)
    ELSE BodyResult(s, x, a, n, TextRaises(r))

\* lines 438-448
body_unknown(s, x, r, a, n) ==
    BodyResult(s, x, a, n, SubElementRaises(s.scene) \/ TextRaises(r))

\* lines 295-448: the branch of the region's type
body_branch(s, x, r, a, n) ==
    CASE r.type = "header"         -> body_header(s, x, r, a, n)
      [] r.type = "heading"        -> body_heading(s, x, r, a, n)
      [] r.type = "TOC-entry"      -> body_toc_entry(s, x, r, a, n)
      [] r.type = "signature-mark" -> body_under_prologue_or_scene(s, x, r, a, n)
      [] r.type = "floating"       -> body_floating(s, x, r, a, n)
      [] r.type \in {"credit", "drop-capital"} -> body_credit(s, x, r, a, n)
      [] r.type = "paragraph"      -> body_paragraph(s, x, r, a, n)
      [] r.type = "caption"        -> body_caption(s, x, r, a, n)
      [] r.type = "footnote"       -> body_under_prologue_or_scene(s, x, r, a, n)
      [] r.type = "catch-word"     -> body_catch_word(s, x, r, a, n)
      [] OTHER                     -> body_unknown(s, x, r, a, n)

\* lines 449-453, reached when the branch did not raise.  is_last is the
\* condition of line 449.
body_tail(b, r, is_last) ==
    IF b.raised THEN b
    ELSE [b EXCEPT !.xf = IF is_last THEN XfWrite(b.xf, b.self.act) ELSE b.xf,
                   !.self = [b.self EXCEPT !.previous_type = r.type]]

build_body(s, x, r, a, n, is_last) ==
    body_tail(body_branch(s, x, r, a, n), r, is_last)

\* ------------------------------------------- the elements a call creates
\* An element created by etree.Element or etree.SubElement: its tag (for a
\* div, its type attribute), the element it was put under ("new" for
\* etree.Element), the root it hangs under, and the text it was given:
\* "region" for the text of the region, "warning" for a fixed message, "type"
\* for the type line of a notes block, "" for none.
El(tag, parent, root, text) ==
    [tag |-> tag, parent |-> parent, root |-> root, text |-> text]

\* The elements that exist when concatenate_lines raises: the one waiting
\* for the text has none.
Blank(els) ==
    [i \in DOMAIN els |->
        IF els[i].text = "region" THEN [els[i] EXCEPT !.text = ""] ELSE els[i]]

\* `pre` are the elements created up to the assignment of the region's text,
\* `post` those created after it.
Created(pre, post, r) == IF TextRaises(r) THEN Blank(pre) ELSE pre \o post

\* The three paragraphs of a notes block for a region nothing else handles
\* (lines 278-281, 433-436, 445-448)
NotesParagraphs(parent, root) ==
    <<El("p", parent, root, "warning"), El("p", parent, root, "type"),
      El("p", parent, root, "region")>>

\* build_front lines 230-281: the elements the branch of the region's type
\* creates before it returns or raises.  The flag the catch-word branch
\* tests is the one the call found: line 228 sets it only for a region of
\* another type.
front_elements(s, r) ==
    LET f == s.front
    IN  CASE r.type = "catch-word" ->
               IF s.is_title_page_created
               THEN Created(<<El("preface", "front", f, ""),
                              El("p", "preface", f, "warning"),
                              El("head", "preface", f, "region")>>, <<>>, r)
               ELSE LET open == IF s.previous_type # "catch-word"
                                THEN <<El("titlePage", "front", f, ""),
                                       El("titlePart", "titlePage", f,
                                          "warning")>>
                                ELSE <<>>
                    IN  IF s.previous_type = "catch-word"
                           /\ SubElementRaises(s.title_page)
                        THEN <<>>
                        ELSE Created(open \o <<El("titlePart", "titlePage", f,
                                                  "region")>>, <<>>, r)
          [] r.type = "other" ->
               Created((IF s.previous_type \notin {"other", "catch-word"}
                          \/ s.div_preface = None
                        THEN <<El("preface", "front", f, "")>> ELSE <<>>)
                       \o <<El("p", "preface", f, "region")>>, <<>>, r)
          [] r.type = "TOC-entry" ->
               Created((IF ~(s.previous_type = "TOC-entry"
                             \/ s.previous_type = "signature-mark")
                          \/ s.cast_list = None
                        THEN <<El("castList", "front", f, "")>> ELSE <<>>)
                       \o <<El("castItem", "castList", f, ""),
                            El("role", "castItem", f, "region")>>, <<>>, r)
          [] r.type = "signature-mark" ->
               Created((IF s.cast_item = None
                        THEN <<El("castList", "front", f, ""),
                               El("castItem", "castList", f, ""),
                               El("role", "castItem", f, "warning")>>
                        ELSE <<>>)
                       \o <<El("roleDesc", "castItem", f, "region")>>, <<>>, r)
          [] r.type = "footnote" ->
               Created(<<El("notes", "front", f, ""),
                         El("p", "notes", f, "warning"),
                         El("note", "notes", f, "region")>>, <<>>, r)
          [] OTHER ->
               IF TextRaises(r) THEN <<El("notes", "front", f, "")>>
               ELSE <<El("notes", "front", f, "")>>
                    \o NotesParagraphs("notes", f)

\* write_front lines 286-288
write_front_elements(s) ==
    <<El("set", "front", s.front, ""), El("p", "set", s.front, "warning")>>

\* The kind of the container of lines 326-329, 333-336, 403-406, 411-414
PrologueOrSceneKind(s) == IF iselement(s.prologue) THEN "prologue" ELSE "scene"

\* The elements a caption creates, lines 366-408
caption_elements(s, r) ==
    IF s.previous_type = "header"
    THEN IF s.set = None /\ SubElementRaises(s.act) THEN <<>>
         ELSE Created((IF s.set = None
                       THEN <<El("set", "act", s.act, "")>> ELSE <<>>)
                      \o <<El("p", "set",
                              IF s.set = None THEN s.act ELSE s.set,
                              "region")>>, <<>>, r)
    ELSE IF s.previous_type = "caption" /\ s.current_scenario = "unset"
    THEN <<>>
    ELSE IF s.previous_type = "caption" /\ s.current_scenario = "set"
    THEN IF SubElementRaises(s.set) THEN <<>>
         ELSE Created(<<El("p", "set", s.set, "region")>>, <<>>, r)
    ELSE IF s.previous_type = "paragraph"
    THEN IF SubElementRaises(s.scene) THEN <<>>
         ELSE Created(<<El("stage", "scene", s.scene, ""),
                        El("p", "stage", s.scene, "region")>>, <<>>, r)
    ELSE IF s.previous_type = "caption" /\ s.current_scenario = "paragraph"
    THEN IF SubElementRaises(s.stage) THEN <<>>
         ELSE Created(<<El("p", "stage", s.stage, "region")>>, <<>>, r)
    ELSE IF s.previous_type \in {"credit", "heading", "scene"}
    THEN IF s.sp # None
         THEN Created(<<El("stage", "sp", s.sp, "region")>>, <<>>, r)
         ELSE IF SubElementRaises(s.scene) THEN <<>>
         ELSE Created(<<El("stage", "scene", s.scene, "region")>>, <<>>, r)
    ELSE IF SubElementRaises(PrologueOrScene(s)) THEN <<>>
         ELSE Created(<<El("stage", PrologueOrSceneKind(s),
                           PrologueOrScene(s), "region")>>, <<>>, r)

\* build_body lines 295-448: the elements the branch of the region's type
\* creates before it returns or raises; n is the number of roots so far
body_elements(s, r, n) ==
    LET c  == PrologueOrScene(s)
        ck == PrologueOrSceneKind(s)
    IN  CASE r.type = "header" ->
               Created(<<El("act", "new", Element("act", n + 1), ""),
                         El("head", "act", Element("act", n + 1), "region")>>,
                       <<>>, r)
          [] r.type = "heading" ->
               IF s.act = None
               THEN Created(<<El("prologue", "new",
                                 Element("prologue", n + 1), ""),
                              El("head", "prologue",
                                 Element("prologue", n + 1), "region")>>,
                            <<>>, r)
               ELSE Created(<<El("scene", "act", s.act, ""),
                              El("head", "scene", s.act, "region")>>,
                            <<El("stage", "scene", s.act, ""),
                              El("castList", "stage", s.act, "")>>, r)
          [] r.type = "TOC-entry" ->
               IF SubElementRaises(s.cast_list) THEN <<>>
               ELSE Created(<<El("castItem", "castList", s.cast_list,
                                 "region")>>, <<>>, r)
          [] r.type = "signature-mark" ->
               IF SubElementRaises(c) THEN <<>>
               ELSE Created(<<El("stage", ck, c, "region")>>, <<>>, r)
          [] r.type = "floating" ->
               IF SubElementRaises(c) THEN <<>>
               ELSE Created(<<El("spGrp", ck, c, ""),
                              El("head", "spGrp", c, "region")>>,
                            <<El("sp", "spGrp", c, ""),
                              El("speaker", "sp", c, "warning"),
                              El("p", "sp", c, "warning")>>, r)
          [] r.type \in {"credit", "drop-capital"} ->
               IF iselement(s.prologue)
               THEN Created(<<El("sp", "prologue", s.prologue, ""),
                              El("speaker", "sp", s.prologue, "region")>>,
                            <<>>, r)
               ELSE IF s.scene = None /\ SubElementRaises(s.act) THEN <<>>
               ELSE LET scene == IF s.scene = None THEN s.act ELSE s.scene
                    IN  Created((IF s.scene = None
                                 THEN <<El("scene", "act", s.act, "")>>
                                 ELSE <<>>)
                                \o <<El("sp", "scene", scene, ""),
                                     El("speaker", "sp", scene, "region")>>,
                                <<>>, r)
          [] r.type = "paragraph" ->
               IF s.sp = None /\ SubElementRaises(s.scene) THEN <<>>
               ELSE LET sp == IF s.sp = None THEN s.scene ELSE s.sp
                    IN  Created((IF s.sp = None
                                 THEN <<El("sp", "scene", s.scene, ""),
                                        El("speaker", "sp", s.scene,
                                           "warning")>>
                                 ELSE <<>>)
                                \o <<El("p", "sp", sp, "region")>>, <<>>, r)
          [] r.type = "caption" -> caption_elements(s, r)
          [] r.type = "footnote" ->
               IF SubElementRaises(c) THEN <<>>
               ELSE Created(<<El("notes", ck, c, ""),
                              El("p", "notes", c, "warning"),
                              El("note", "notes", c, "region")>>, <<>>, r)
          [] r.type = "catch-word" ->
               IF s.scene = None
               THEN Created(<<El("p", "new", Element("p", n + 1), "warning"),
                              El("head", "new", Element("head", n + 2),
                                 "region")>>, <<>>, r)
               ELSE IF TextRaises(r)
               THEN <<El("notes", "scene", s.scene, "")>>
               ELSE <<El("notes", "scene", s.scene, "")>>
                    \o NotesParagraphs("notes", s.scene)
          [] OTHER ->
               IF SubElementRaises(s.scene) THEN <<>>
               ELSE IF TextRaises(r)
               THEN <<El("notes", "scene", s.scene, "")>>
               ELSE <<El("notes", "scene", s.scene, "")>>
                    \o NotesParagraphs("notes", s.scene)

\* ------------------------------------------------------------- inputs
\* "end", the default of next(self.file_iter, "end")
End == 0

\* The qualifying TextRegion elements of a page file whose geometry is
\* usable, in document order; the region at position i has id i.
OkElements ==
    UNION {{[i \in 1 .. n |->
                [id |-> i, type |-> t[i], geom |-> "ok", text_ok |-> TRUE]] :
            t \in [1 .. n -> InputTypes]} : n \in 0 .. MaxRegions}

\* Page files with a region whose geometry raises.  What Page.__init__ does
\* with them does not depend on the region types.
BadElements ==
    UNION {{[i \in 1 .. n |->
                [id |-> i, type |-> "other", geom |-> g[i], text_ok |-> TRUE]] :
            g \in {h \in [1 .. n -> Geoms] : \E i \in 1 .. n : h[i] # "ok"}} :
           n \in 1 .. MaxRegions}

\* Reading orders of a page file.  Region ids are arbitrary names, so only
\* the orders that name region 1 first, region 2 as the next new one, and so
\* on, are drawn; an id above the number of regions of the file names no
\* region of it.
ReadingOrders ==
    {ro \in SeqUpTo(RegionIds, MaxOrder) :
        \A i \in DOMAIN ro :
            \/ ro[i] = 1
            \/ \E j \in 1 .. i - 1 : ro[j] >= ro[i] - 1}

PageFiles ==
    {[elements |-> e, reading_order |-> ro] :
        e \in OkElements \cup BadElements, ro \in ReadingOrders}

\* Page(file) for every page file: whether the constructor raised, and the
\* text_region_list it left.
PageLoads ==
    {LET p == PageInit(f.elements, f.reading_order)
     IN  [raised |-> p.raised, text_region_list |-> p.text_region_list] :
     f \in PageFiles}

\* The page files the next Page(..) call may meet when `used` regions have
\* been resolved so far; no call is made when `load` is false.
NoLoad == [raised |-> FALSE, text_region_list |-> <<>>]

\* Region types drawn for the pages of a run over one-region pages
RegionTypes == InputTypes \cup {"footnote"}

\* Page(file) for the page files that hold one region, named by the reading
\* order, whose text can or cannot be read
RegionLoads ==
    {LET p == PageInit(<<[id |-> 1, type |-> t, geom |-> "ok",
                          text_ok |-> ok]>>, <<1>>)
     IN  [raised |-> p.raised, text_region_list |-> p.text_region_list] :
     t \in RegionTypes, ok \in BOOLEAN}

\* A run over one-region pages meets at most one region whose text cannot
\* be read.
\* Region types drawn for the pages of a run that is made twice
RerunTypes == {"header", "paragraph", "other"}

RerunLoads ==
    {p \in PageLoads :
        \A i \in DOMAIN p.text_region_list :
            p.text_region_list[i].type \in RerunTypes}

\* A file that was parsed before in a run or its rerun holds what it held.
Loads(load, cf) ==
    IF ~load THEN {NoLoad}
    ELSE IF hist.source = "regions"
    THEN {p \in RegionLoads :
             hist.unreadable => p.text_region_list[1].text_ok}
    ELSE IF hist.source = "rerun"
    THEN IF cf \in DOMAIN hist.files THEN {hist.files[cf]}
         ELSE {p \in RerunLoads :
                  hist.stream + Len(p.text_region_list) <= MaxStream}
    ELSE {p \in PageLoads :
             hist.stream + Len(p.text_region_list) <= MaxStream}

\* ------------------------------------------------------------- driver
\* next(self.file_iter, "end") after current_file; an exhausted iterator
\* stays exhausted
NextFile(files, cf) ==
    IF \E i \in 1 .. Len(files) - 1 : files[i] = cf
    THEN files[(CHOOSE i \in 1 .. Len(files) - 1 : files[i] = cf) + 1]
    ELSE End

\* A plausible slip: the list is used in the order glob.glob gave it.
GlobOrder(files) == files

\* self.file_list.sort() (line 128): file names are distinct
SortedFiles(files) ==
    [i \in DOMAIN files |->
        CHOOSE f \in Range(files) :
            Cardinality({g \in Range(files) : g < f}) = i - 1]

\* `text_region is self.page.text_region_list[-1]`: the regions of a resolved
\* list are the values of text_region_dict, one object per id.
IsLastRegion(r, list) == r.id = list[Len(list)].id

\* Where the run goes when it reaches `while self.current_file != "end"`
\* (line 202) and then the for loop of line 203.
BodyWhile(cf, list) ==
    IF cf = End THEN "done"
    ELSE IF list = <<>> THEN "body_after" ELSE "body_for"

NoPos == <<0, 0>>

\* What a run leaves: where it ended, the fields, and the output
Final(out) ==
    [pc |-> pc, self |-> self, act_number |-> act_number, xf |-> xf,
     out |-> out]

NoFinal ==
    [pc |-> "new", self |-> InitFields, act_number |-> 0, xf |-> <<>>,
     out |-> <<>>]

\* The history of a run.  source names the page files the run draws from;
\* added are the elements the last step created; unwritten are the roots
\* that were given the text of a region build_body returned from and were
\* not handed to the writer since; flushed tells that the last build_body
\* call executed line 450; loaded, frontFed and bodyFed are the regions, as
\* <<page, position in the resolved list>>, of the resolved lists so far and
\* those handed to build_front and to build_body, again tells that one was
\* handed twice to the same one of the two; titlePages counts the titlePage
\* elements created, up to two; built are the elements build_body created
\* so far, and out, for every write build_body made, the root written and
\* the elements under it at that time.  For a run that is made twice: run
\* counts the runs, glob is the file list as glob.glob gave it, files what
\* Page(..) found in each file, trace the states the first run took its
\* steps from, glob1 and first its glob result and its final state, step the
\* steps of the second run, and same tells that each was taken from the
\* state the first run took that step from.
InitHist ==
    [lastOp |-> "init", raised |-> FALSE, markerSeen |-> FALSE,
     markerPos |-> NoPos, bodyFirst |-> NoPos, nHeader |-> 0,
     atEnd |-> FALSE, abort |-> "none", stream |-> 0,
     source |-> "files", unreadable |-> FALSE, added |-> <<>>,
     unwritten |-> {}, flushed |-> FALSE, loaded |-> {}, frontFed |-> {},
     bodyFed |-> {}, again |-> FALSE, titlePages |-> 0, built |-> <<>>,
     out |-> <<>>, run |-> 1, glob |-> <<>>, files |-> <<>>, trace |-> <<>>,
     glob1 |-> <<>>, first |-> NoFinal, step |-> 0, same |-> TRUE]

\* The longest a run that ends can be: __init__, the start, and a step for
\* each region and each page in front phase and again in body phase
TraceCap == 2 * (MaxStream + MaxPages) + 2

\* The state a step is taken from
Snapshot ==
    [pc |-> pc, current_file |-> current_file, text_part |-> text_part,
     idx |-> idx, self |-> self, act_number |-> act_number, xf |-> xf]

\* The history of a step of a run that is made twice
Log(h) ==
    IF h.source # "rerun" THEN h
    ELSE IF h.run = 1
    THEN [h EXCEPT !.trace = IF Len(@) < TraceCap THEN Append(@, Snapshot)
                             ELSE @]
    ELSE IF h.step < Len(h.trace)
    THEN [h EXCEPT !.step = @ + 1,
                   !.same = @ /\ h.trace[h.step + 1] = Snapshot]
    ELSE [h EXCEPT !.same = FALSE]

\* The history after Page(cf) gave p (load is false and p is NoLoad when no
\* call was made)
HistLoad(h, load, cf, p) ==
    Log([h EXCEPT
            !.stream = @ + Len(p.text_region_list),
            !.unreadable =
                @ \/ \E i \in DOMAIN p.text_region_list :
                         ~p.text_region_list[i].text_ok,
            !.loaded = @ \cup {<<cf, i>> : i \in DOMAIN p.text_region_list},
            !.added = <<>>,
            !.files = IF load /\ h.source = "rerun" THEN (cf :> p) @@ @
                      ELSE @])

\* The number of titlePage elements among els
TitlePagesIn(els) ==
    Cardinality({i \in DOMAIN els : els[i].tag = "titlePage"})

\* The roots among els that carry the text of a region
TextRoots(els) ==
    {els[i].root : i \in {j \in DOMAIN els : els[j].text = "region"}}

\* The roots handed to the writer between x and its extension y
Written(x, y) == {y[i] : i \in Len(x) + 1 .. Len(y)}

\* What the writes between x and its extension y serialised, els being the
\* elements in existence: xf.write(e) serialises e with all that hangs
\* under it.
Snapshots(x, y, els) ==
    [i \in 1 .. Len(y) - Len(x) |->
        [root |-> y[Len(x) + i],
         els  |-> SelectSeq(els, LAMBDA e : e.root = y[Len(x) + i])]]

IdlePage == [stage |-> "idle"]

Init ==
    /\ pc = "new"
    /\ file_list \in {[i \in 1 .. n |-> i] : n \in 1 .. MaxPages}
    /\ current_file = End
    /\ page = <<>>
    /\ text_part = "front"
    /\ text_region = NoRegion
    /\ idx = 0
    /\ self = InitFields
    /\ act_number = 0
    /\ xf = <<>>
    /\ nel = 0
    /\ hist = InitHist
    /\ pg = IdlePage

\* Conversion.__init__ (lines 125-146) on a non-empty file list
Construct ==
    /\ pc = "new"
    /\ file_list' = SortedFiles(file_list)
    /\ \E p \in Loads(TRUE, SortedFiles(file_list)[1]) :
          /\ current_file' = SortedFiles(file_list)[1]
          /\ page' = p.text_region_list
          /\ pc' = IF p.raised THEN "crashed" ELSE "start"
          /\ hist' = HistLoad(
                         [hist EXCEPT
                             !.lastOp = "construct",
                             !.glob = file_list,
                             !.abort = IF p.raised THEN "geometry"
                                       ELSE "none"],
                         TRUE, SortedFiles(file_list)[1], p)
    /\ text_part' = "front"
    /\ self' = InitFields
    /\ UNCHANGED <<text_region, idx, act_number, xf, nel, pg>>

\* create_tei lines 178-182 and, when the run starts in body phase, 200-203
Start ==
    /\ pc = "start"
    /\ IF page = <<>>
       THEN /\ pc' = "aborted"
            /\ hist' = Log([hist EXCEPT !.lastOp = "start",
                                        !.abort = "empty_page",
                                        !.added = <<>>])
            /\ UNCHANGED <<text_part, self, nel, idx>>
       ELSE LET marker == page[1].type \in BODY_MARKER
            IN  /\ text_part' = IF marker THEN "body" ELSE text_part
                /\ hist' = Log([hist EXCEPT !.lastOp = "start",
                                        !.markerSeen = marker,
                                        !.added = <<>>])
                /\ IF text_part' = "front"
                   THEN /\ self' = [self EXCEPT
                                       !.front = Element("front", nel + 1)]
                        /\ nel' = nel + 1
                        /\ pc' = "front_for"
                   ELSE /\ pc' = BodyWhile(current_file, page)
                        /\ UNCHANGED <<self, nel>>
                /\ idx' = 1
    /\ UNCHANGED <<file_list, current_file, page, text_region, act_number,
                   xf, pg>>

\* One iteration of the for loop of lines 184-191
FrontRegion ==
    /\ pc = "front_for"
    /\ LET r == page[idx]
       IN  /\ text_region' = r
           /\ IF r.type \in BODY_MARKER
              THEN LET w == write_front(self, xf)
                   IN  /\ xf' = w.xf
                       /\ text_part' = w.text_part
                       /\ pc' = "front_after"
                       /\ hist' = Log([hist EXCEPT
                                      !.lastOp = "write_front",
                                      !.markerSeen = TRUE,
                                      !.markerPos = <<current_file, idx>>,
                                      !.added = write_front_elements(self),
                                      !.unwritten = @ \ Written(xf, w.xf)])
                       /\ UNCHANGED <<self, idx>>
              ELSE LET f == build_front(self, r)
                   IN  /\ self' = f.self
                       /\ idx' = idx + 1
                       /\ pc' = IF idx = Len(page) THEN "front_after"
                                ELSE "front_for"
                       /\ hist' = Log([hist EXCEPT
                              !.lastOp = "build_front",
                              !.raised = f.raised,
                              !.added = front_elements(self, r),
                              !.frontFed = @ \cup {<<current_file, idx>>},
                              !.again = @ \/ <<current_file, idx>> \in
                                                 hist.frontFed,
                              !.titlePages =
                                  IF @ + TitlePagesIn(front_elements(self, r))
                                       >= 2
                                  THEN 2
                                  ELSE @ + TitlePagesIn(
                                               front_elements(self, r))])
                       /\ UNCHANGED <<xf, text_part>>
    /\ UNCHANGED <<file_list, current_file, page, act_number, nel, pg>>

\* Lines 192-198 after the for loop, then the loop test of line 183 and,
\* when the front loop is left, lines 200-203
FrontAfter ==
    /\ pc = "front_after"
    /\ LET advance == IsLastRegion(text_region, page)
           cf      == IF advance THEN NextFile(file_list, current_file)
                      ELSE current_file
           load    == advance /\ cf # End
       IN  \E p \in Loads(load, cf) :
             LET list == IF load /\ ~p.raised THEN p.text_region_list
                         ELSE page
                 h    == HistLoad([hist EXCEPT !.lastOp = "front_after"],
                                  load, cf, p)
             IN  /\ current_file' = cf
                 /\ page' = list
                 /\ IF load /\ p.raised
                    THEN /\ pc' = "aborted"
                         /\ hist' = [h EXCEPT !.abort = "geometry"]
                         /\ UNCHANGED <<xf, text_part, idx>>
                    ELSE IF list = <<>>
                    THEN /\ pc' = "aborted"
                         /\ hist' = [h EXCEPT !.abort = "empty_page"]
                         /\ UNCHANGED <<xf, text_part, idx>>
                    ELSE IF list[1].type \in BODY_MARKER
                    THEN LET w == write_front(self, xf)
                         IN  /\ xf' = w.xf
                             /\ text_part' = w.text_part
                             /\ pc' = BodyWhile(cf, list)
                             /\ idx' = 1
                             /\ hist' = [h EXCEPT
                                    !.markerSeen = TRUE,
                                    !.added = write_front_elements(self),
                                    !.unwritten = @ \ Written(xf, w.xf)]
                    ELSE /\ pc' = IF text_part = "front" THEN "front_for"
                                  ELSE BodyWhile(cf, list)
                         /\ idx' = 1
                         /\ hist' = h
                         /\ UNCHANGED <<xf, text_part>>
    /\ UNCHANGED <<file_list, text_region, self, act_number, nel, pg>>

\* One iteration of the for loop of lines 203-207
BodyRegion ==
    /\ pc = "body_for"
    /\ LET r       == page[idx]
           is_last == /\ current_file = file_list[Len(file_list)]
                      /\ IsLastRegion(r, page)
           b       == build_body(self, xf, r, act_number, nel, is_last)
       IN  /\ text_region' = r
           /\ self' = b.self
           /\ xf' = b.xf
           /\ nel' = b.nel
           /\ act_number' = IF b.raised THEN act_number ELSE b.act_number
           /\ idx' = idx + 1
           /\ pc' = IF idx = Len(page) THEN "body_after" ELSE "body_for"
           /\ hist' = Log([hist EXCEPT
                  !.lastOp = "build_body",
                  !.raised = b.raised,
                  !.markerSeen = @ \/ r.type \in BODY_MARKER,
                  !.bodyFirst = IF @ = NoPos THEN <<current_file, idx>> ELSE @,
                  !.nHeader = IF r.type = "header" THEN @ + 1 ELSE @,
                  !.atEnd = /\ current_file = Len(file_list)
                            /\ idx = Len(page),
                  !.added = body_elements(self, r, nel),
                  !.unwritten =
                      (@ \cup IF b.raised THEN {}
                              ELSE TextRoots(body_elements(self, r, nel)))
                      \ Written(xf, b.xf),
                  !.flushed = ~b.raised /\ is_last,
                  !.built = @ \o body_elements(self, r, nel),
                  !.out = @ \o Snapshots(xf, b.xf,
                                         hist.built
                                         \o body_elements(self, r, nel)),
                  !.bodyFed = @ \cup {<<current_file, idx>>},
                  !.again = @ \/ <<current_file, idx>> \in hist.bodyFed])
    /\ UNCHANGED <<file_list, current_file, page, text_part, pg>>

\* Lines 208-211 after the for loop, then the loop test of line 202
BodyAfter ==
    /\ pc = "body_after"
    /\ IF page = <<>>
       THEN /\ pc' = "aborted"
            /\ hist' = Log([hist EXCEPT !.lastOp = "body_after",
                                    !.abort = "empty_page",
                                    !.added = <<>>])
            /\ UNCHANGED <<current_file, page, idx>>
       ELSE LET advance == IsLastRegion(text_region, page)
                cf      == IF advance THEN NextFile(file_list, current_file)
                           ELSE current_file
                load    == advance /\ cf # End
            IN  \E p \in Loads(load, cf) :
                  /\ current_file' = cf
                  /\ page' = IF load /\ ~p.raised THEN p.text_region_list
                             ELSE page
                  /\ idx' = 1
                  /\ pc' = IF load /\ p.raised THEN "aborted"
                           ELSE BodyWhile(cf, page')
                  /\ hist' = HistLoad(
                         [hist EXCEPT
                             !.lastOp = "body_after",
                             !.abort = IF load /\ p.raised THEN "geometry"
                                       ELSE @],
                         load, cf, p)
    /\ UNCHANGED <<file_list, text_part, text_region, self, act_number, xf,
                   nel, pg>>

Next == Construct \/ Start \/ FrontRegion \/ FrontAfter \/ BodyRegion
        \/ BodyAfter

Spec == Init /\ [][Next]_vars

\* ------------------------------------------------- a run made twice
\* The orders glob.glob may give the n files of the folder in
GlobResults(n) ==
    {f \in [1 .. n -> 1 .. n] : \A i, j \in 1 .. n : f[i] = f[j] => i = j}

\* Conversion(folder).create_tei(file) is run, and when it has ended it is
\* run again on the same folder: glob.glob gives the same files in any
\* order, and every file holds what it held.
InitRerun ==
    /\ pc = "new"
    /\ file_list \in UNION {GlobResults(n) : n \in 1 .. MaxPages}
    /\ current_file = End
    /\ page = <<>>
    /\ text_part = "front"
    /\ text_region = NoRegion
    /\ idx = 0
    /\ self = InitFields
    /\ act_number = 0
    /\ xf = <<>>
    /\ nel = 0
    /\ hist = [InitHist EXCEPT !.source = "rerun"]
    /\ pg = IdlePage

\* The second run begins: a new Conversion object, a new glob result
Rerun ==
    /\ pc \in {"done", "aborted", "crashed"}
    /\ hist.source = "rerun"
    /\ hist.run = 1
    /\ pc' = "new"
    /\ file_list' \in GlobResults(Len(file_list))
    /\ current_file' = End
    /\ page' = <<>>
    /\ text_part' = "front"
    /\ text_region' = NoRegion
    /\ idx' = 0
    /\ self' = InitFields
    /\ act_number' = 0
    /\ xf' = <<>>
    /\ nel' = 0
    /\ hist' = [InitHist EXCEPT !.source = "rerun", !.run = 2,
                                !.files = hist.files, !.trace = hist.trace,
                                !.glob1 = hist.glob,
                                !.first = Final(hist.out)]
    /\ UNCHANGED pg

NextRerun == Next \/ Rerun

SpecRerun == InitRerun /\ [][NextRerun]_vars

\* --------------------------------- runs over one-region page files
\* The same run over a folder of page files that hold one region each, of
\* any of RegionTypes, one of which may carry text that cannot be read.
InitRegions ==
    /\ pc = "new"
    /\ file_list \in {[i \in 1 .. n |-> i] : n \in 1 .. MaxRun}
    /\ current_file = End
    /\ page = <<>>
    /\ text_part = "front"
    /\ text_region = NoRegion
    /\ idx = 0
    /\ self = InitFields
    /\ act_number = 0
    /\ xf = <<>>
    /\ nel = 0
    /\ hist = [InitHist EXCEPT !.source = "regions"]
    /\ pg = IdlePage

SpecRegions == InitRegions /\ [][Next]_vars

\* ------------------------------------------ resolver specification
\* Page files for the resolver alone: any ids in any document order (two
\* regions may carry the same id), and reading orders that may name an id no
\* region of the file has (MaxRegions + 1).  The region types play no part
\* in Page.__init__.
ResolverTypes == {"other"}

ResolverElements ==
    UNION {{[i \in 1 .. n |->
                [id |-> ids[i], type |-> t[i], geom |-> "ok",
                 text_ok |-> TRUE]] :
            ids \in [1 .. n -> RegionIds], t \in [1 .. n -> ResolverTypes]} :
           n \in 0 .. MaxRegions}

ResolverOrders == SeqUpTo(1 .. MaxRegions + 1, MaxOrder)

InitPage ==
    /\ pc = "page"
    /\ file_list = <<1>>
    /\ current_file = End
    /\ page = <<>>
    /\ text_part = "front"
    /\ text_region = NoRegion
    /\ idx = 0
    /\ self = InitFields
    /\ act_number = 0
    /\ xf = <<>>
    /\ nel = 0
    /\ hist = InitHist
    /\ pg \in {[stage |-> "file", elements |-> e, reading_order |-> ro] :
                 e \in ResolverElements, ro \in ResolverOrders}

\* Page.__init__ lines 15-25 on the file
PageConstruct ==
    /\ pg.stage = "file"
    /\ LET p == PageInit(pg.elements, pg.reading_order)
       IN  pg' = [stage |-> "page", elements |-> pg.elements,
                  reading_order |-> p.reading_order,
                  text_region_list |-> p.text_region_list,
                  text_region_dict |-> p.text_region_dict,
                  raised |-> p.raised]
    /\ UNCHANGED <<pc, file_list, current_file, page, text_part, text_region,
                   idx, self, act_number, xf, nel, hist>>

NextPage == PageConstruct

SpecPage == InitPage /\ [][NextPage]_vars

\* ------------------------------------------- line specification
\* The coordinates a point may have
Xs == {1, 2}

Ys == {10, 20, 30}

Points == {[x |-> x, y |-> y] : x \in Xs, y \in Ys}

\* sorted(points, key=itemgetter(1, 0)): p does not come after q
Before(p, q) == p.y < q.y \/ (p.y = q.y /\ p.x <= q.x)

\* TextRegion.get_reference_point: the first point in the order by y, then x
get_reference_point(points) ==
    CHOOSE p \in Range(points) : \A q \in Range(points) : Before(p, q)

\* The Coords element get_lines asks for is missing in the line: find(..)
\* gives None and .get raises AttributeError
Missing == <<>>

\* What convert_coordinates gives for the points attribute of a line: one
\* point, or two of which the second is the reference point, or Missing
LineCoords ==
    {<<p>> : p \in Points}
    \cup {pq \in Points \X Points :
               Before(pq[2], pq[1]) /\ pq[2].x # pq[1].x}
    \cup {Missing}

\* TextLine(line, reference_point) for the line at position doc of the
\* region
TextLine(doc, reference_point) ==
    [doc |-> doc, x |-> reference_point.x, y |-> reference_point.y]

\* A plausible slip: the lines are sorted by y and then x.
sort_by_y_then_x(lines, i) ==
    LET l == lines[i]
    IN  Cardinality({j \in DOMAIN lines :
                        \/ lines[j].y < l.y
                        \/ lines[j].y = l.y /\ lines[j].x < l.x
                        \/ lines[j].y = l.y /\ lines[j].x = l.x /\ j < i}) + 1

\* lines.sort(key=attrgetter("y")), a stable sort: the place of lines[i]
\* in the sorted list
sort_by_y(lines, i) ==
    LET l == lines[i]
    IN  Cardinality({j \in DOMAIN lines :
                        \/ lines[j].y < l.y
                        \/ lines[j].y = l.y /\ j < i}) + 1

\* The sorted list
Sorted(lines) ==
    [k \in DOMAIN lines |->
        lines[CHOOSE i \in DOMAIN lines : sort_by_y(lines, i) = k]]

\* TextRegion.get_lines and lines 56-58 of TextRegion.__init__ on a region
\* with the given TextLine elements; glyph tells whether the region holds a
\* Glyph element.  A line without the Coords asked for is skipped in a
\* region with glyphs and raises in one without; a region left without
\* lines raises at line 57.
get_lines(glyph, text_line) ==
    LET kept  == SelectSeq([i \in DOMAIN text_line |->
                               [doc |-> i, coords |-> text_line[i]]],
                           LAMBDA l : l.coords # Missing)
        lines == [i \in DOMAIN kept |->
                     TextLine(kept[i].doc,
                              get_reference_point(kept[i].coords))]
    IN  IF (~glyph /\ Len(kept) < Len(text_line)) \/ kept = <<>>
        THEN [raised |-> TRUE, line |-> <<>>]
        ELSE [raised |-> FALSE, line |-> Sorted(lines)]

InitLines ==
    /\ pc = "region"
    /\ file_list = <<1>>
    /\ current_file = End
    /\ page = <<>>
    /\ text_part = "front"
    /\ text_region = NoRegion
    /\ idx = 0
    /\ self = InitFields
    /\ act_number = 0
    /\ xf = <<>>
    /\ nel = 0
    /\ hist = InitHist
    /\ pg \in {[stage |-> "element", glyph |-> g, text_line |-> t] :
                 g \in BOOLEAN,
                 t \in SeqUpTo(LineCoords, MaxLines) \ {<<>>}}

\* TextRegion.__init__ lines 50-58 on the element
TextRegionConstruct ==
    /\ pg.stage = "element"
    /\ LET t == get_lines(pg.glyph, pg.text_line)
       IN  pg' = [stage |-> "region", glyph |-> pg.glyph,
                  text_line |-> pg.text_line, raised |-> t.raised,
                  line |-> t.line]
    /\ UNCHANGED <<pc, file_list, current_file, page, text_part, text_region,
                   idx, self, act_number, xf, nel, hist>>

NextLines == TextRegionConstruct

SpecLines == InitLines /\ [][NextLines]_vars

\* ------------------------------------------- line text specification
\* The values of the index attribute of a TextEquiv element: strings of
\* digits, a character standing as its place among '0' < '1' < '2'
IndexStrings == {<<0>>, <<1>>, <<2>>, <<1, 0>>, <<1, 2>>}

\* A Unicode element without content: its .text is None
NoText == "(None)"

\* A TextEquiv element without a Unicode child: find(..) gives None
NoUnicode == "(no Unicode)"

\* The TextEquiv children a TextLine element may have: with or without an
\* index attribute, and a Unicode child with text, without text, or none
TextEquivs ==
    {[indexed |-> TRUE, index |-> s, unicode |-> u] :
        s \in IndexStrings, u \in {"a", "b", NoText, NoUnicode}}
    \cup {[indexed |-> FALSE, index |-> <<>>, unicode |-> u] :
             u \in {"a", "b", NoText, NoUnicode}}

\* int(a) of a string of digits
IntOf(a) ==
    IF Len(a) = 1 THEN a[1] ELSE 10 * a[1] + a[2]

\* A plausible slip: the indices are compared as numbers.
index_before_numeric(a, b) == IntOf(a) < IntOf(b)

\* a < b of two Python strings: at the first place where they differ a
\* ends or has the smaller character
index_before(a, b) ==
    \E k \in 1 .. Len(b) :
        /\ k <= Len(a) + 1
        /\ \A i \in 1 .. k - 1 : a[i] = b[i]
        /\ k = Len(a) + 1 \/ a[k] < b[k]

\* text_equiv.sort(key=itemgetter(0)), a stable sort: the place of
\* text_equiv[i] in the sorted list
sort_by_index(text_equiv, i) ==
    Cardinality({j \in DOMAIN text_equiv :
                    \/ index_before(text_equiv[j][1], text_equiv[i][1])
                    \/ text_equiv[j][1] = text_equiv[i][1] /\ j < i}) + 1

\* TextLine.get_text on a line with the given TextEquiv children.  The
\* comprehension of line 109 raises AttributeError at a child with an index
\* and no Unicode; text_equiv[0] of an empty list raises IndexError, which
\* is caught.
get_text(text_line) ==
    LET te         == SelectSeq(text_line, LAMBDA e : e.indexed)
        text_equiv == [i \in DOMAIN te |-> <<te[i].index, te[i].unicode>>]
    IN  IF \E i \in DOMAIN te : te[i].unicode = NoUnicode
        THEN [raised |-> TRUE, text |-> NoText]
        ELSE IF text_equiv = <<>>
        THEN [raised |-> FALSE, text |-> ""]
        ELSE [raised |-> FALSE,
              text |-> text_equiv[CHOOSE i \in DOMAIN text_equiv :
                                     sort_by_index(text_equiv, i) = 1][2]]

InitText ==
    /\ pc = "line"
    /\ file_list = <<1>>
    /\ current_file = End
    /\ page = <<>>
    /\ text_part = "front"
    /\ text_region = NoRegion
    /\ idx = 0
    /\ self = InitFields
    /\ act_number = 0
    /\ xf = <<>>
    /\ nel = 0
    /\ hist = InitHist
    /\ pg \in {[stage |-> "line", text_line |-> t] :
                 t \in SeqUpTo(TextEquivs, MaxEquivs)}

\* A call of TextLine.get_text() on the line
GetText ==
    /\ pg.stage = "line"
    /\ LET t == get_text(pg.text_line)
       IN  pg' = [stage |-> "text", text_line |-> pg.text_line,
                  raised |-> t.raised, text |-> t.text]
    /\ UNCHANGED <<pc, file_list, current_file, page, text_part, text_region,
                   idx, self, act_number, xf, nel, hist>>

NextText == GetText

SpecText == InitText /\ [][NextText]_vars

\* ---------------------------------------------------------- properties
\* The ids of a list of regions
IdsOf(list) == [i \in DOMAIN list |-> list[i].id]

\* The ids the qualifying regions of the file carry
FileIds == {pg.elements[i].id : i \in DOMAIN pg.elements}

\* The region of the file the mapping holds for an id it has: the last one
\* in document order
MappedRegion(region_id) ==
    LET last == CHOOSE i \in DOMAIN pg.elements :
                    /\ pg.elements[i].id = region_id
                    /\ \A j \in DOMAIN pg.elements :
                           pg.elements[j].id = region_id => j <= i
    IN  [id |-> region_id, type |-> pg.elements[last].type,
         text_ok |-> pg.elements[last].text_ok]

\* The reading order of the file without the ids no region of it carries
FilteredOrder == SelectSeq(pg.reading_order, LAMBDA region_id : region_id \in FileIds)

\* C9: the resolved region list of a page is its group-ordering list
\* filtered to the ids of the region mapping, in the list's order, each id
\* standing for the mapped region: regions the list does not name are
\* dropped, an empty list gives an empty result, and so does a page without
\* qualifying region.
C9_ResolvedIsFilteredOrder ==
    pg.stage = "page" =>
        /\ IdsOf(pg.text_region_list) = FilteredOrder
        /\ \A i \in DOMAIN pg.text_region_list :
               pg.text_region_list[i] = MappedRegion(pg.text_region_list[i].id)
        /\ \A region_id \in FileIds :
               region_id \notin Range(pg.reading_order) =>
                   region_id \notin Range(IdsOf(pg.text_region_list))
        /\ pg.reading_order = <<>> => pg.text_region_list = <<>>
        /\ pg.elements = <<>> => pg.text_region_list = <<>>

\* A page with three regions of which the reading order names two, in an
\* order other than the document order, and one id no region carries.
C9_Witness ==
    /\ pg.stage = "page"
    /\ Len(pg.elements) = 3
    /\ Cardinality(FileIds) = 3
    /\ Len(pg.reading_order) = 3
    /\ Len(pg.text_region_list) = 2
    /\ pg.text_region_list[1].id = pg.elements[3].id
    /\ pg.text_region_list[2].id = pg.elements[1].id

\* The regions of the file as Page.__init__ first lists them (line 22)
SourceList == [i \in DOMAIN pg.elements |-> TextRegionInit(pg.elements[i])]

\* C10 as stated: the region order is the resolved reading order when the
\* page supplies one, and the source order when it supplies none.
C10_Original ==
    pg.stage = "page" =>
        IF pg.reading_order # <<>>
        THEN IdsOf(pg.text_region_list) = FilteredOrder
        ELSE pg.text_region_list = SourceList

\* C10 amended: the region order is the resolved reading order when the page
\* supplies one; a page that supplies none keeps no region at all, so its
\* list is the untouched source list only when the page has no qualifying
\* region.
C10_NoOrderGivesEmptyList ==
    pg.stage = "page" =>
        /\ pg.reading_order # <<>> =>
               IdsOf(pg.text_region_list) = FilteredOrder
        /\ pg.reading_order = <<>> =>
               /\ pg.text_region_list = <<>>
               /\ (pg.text_region_list = SourceList <=> pg.elements = <<>>)

\* A page with qualifying regions and no reading order
C10_Witness ==
    /\ pg.stage = "page"
    /\ pg.reading_order = <<>>
    /\ Len(pg.elements) >= 2
    /\ pg.text_region_list = <<>>

\* The run has ended: the output file is written ("done"), the outer
\* handler of create_tei caught an error ("aborted"), or Conversion(..)
\* itself raised ("crashed").
Ended == pc \in {"done", "aborted", "crashed"}

\* How often an element was handed to the writer
Writes(e) == Cardinality({i \in DOMAIN xf : xf[i] = e})

\* The number of act subtrees that were handed to the writer
ActsWritten == Cardinality({xf[i] : i \in {j \in DOMAIN xf : xf[j].kind = "act"}})

\* C1 as stated, in the form a finite run decides: once the page list is
\* exhausted in front phase the front loop ends, so no region is passed to
\* build_front after the exhaustion.
C1_NoFrontPassAfterExhaustion ==
    ~(current_file = End /\ hist.lastOp = "build_front")

\* C2: the phase only ever changes from front to body, and once a region of
\* a body-marker type has been met no step applies build_front.
C2_PhaseNeverReverts ==
    [][/\ text_part \in {"front", "body"}
       /\ text_part = "body" => text_part' = "body"
       /\ hist.markerSeen => hist'.lastOp # "build_front"]_vars

\* A finished run that met its body marker in the middle of a page, after
\* build_front had been applied, and then applied build_body.
C2_Witness ==
    /\ pc = "done"
    /\ text_part = "body"
    /\ hist.markerPos # NoPos
    /\ hist.markerPos[2] > 1
    /\ hist.lastOp = "body_after"
    /\ hist.bodyFirst # NoPos
    /\ Writes(self.front) = 1

\* C3 as stated: when the front loop meets a body marker in the middle of a
\* page, the front is written and the first region passed to build_body is
\* that marker region.
C3_BodyStartsAtMarker ==
    hist.markerPos # NoPos =>
        /\ Writes(self.front) >= 1
        /\ hist.bodyFirst # NoPos => hist.bodyFirst = hist.markerPos

\* C4 as stated: when the run has consumed the whole stream, the act
\* subtrees written are as many as the header regions build_body was
\* applied to.
C4_ActsWrittenEqualHeaders ==
    pc = "done" => ActsWritten = hist.nHeader

\* C5 as stated: after build_body was applied to the last region of the
\* last page, the open act is written, whatever the branch did.
C5_EndOfStreamFlush ==
    (hist.lastOp = "build_body" /\ hist.atEnd /\ self.act # None) =>
        Writes(self.act) >= 1

\* C6 as stated: no element is handed to the writer twice.
C6_WrittenAtMostOnce ==
    \A i, j \in DOMAIN xf : xf[i] = xf[j] => i = j

\* C7 as stated: a geometry error of a region never ends the run; the
\* region alone is skipped.
C7_GeometryErrorSkipsRegionOnly ==
    ~(Ended /\ hist.abort = "geometry")

\* C8 as stated: build_body applied to a region whose text can be read does
\* not raise.
C8_BuildBodyNeverRaises ==
    (hist.lastOp = "build_body" /\ text_region.text_ok) => ~hist.raised

\* C11 as stated: a run whose pages all resolve to empty region lists is not
\* aborted; it ends with the output document written.
C11_EmptyPagesCompleteNormally ==
    (Ended /\ hist.abort # "geometry" /\ hist.loaded = {}) => pc = "done"

\* C12 as stated: no region is handed to both build_front and build_body,
\* none is handed twice to the same one of them, and when the run has
\* ended with its output written every region of every resolved list was
\* handed to one of them.
C12_ConsumedExactlyOnce ==
    /\ hist.frontFed \cap hist.bodyFed = {}
    /\ ~hist.again
    /\ pc = "done" => hist.loaded = hist.frontFed \cup hist.bodyFed

\* C13 as stated: when the run has ended after the end-of-stream flush
\* (line 450) was executed, no root that was given the text of a region
\* build_body returned from is left without a later write: nothing was
\* attached to a subtree already written, and no prologue or act holding
\* content stays unwritten.
C13_FlushedOutputIsComplete ==
    (pc = "done" /\ hist.flushed) => hist.unwritten = {}

\* C14 as stated: every build_body call on a footnote region whose text can
\* be read returns, having put a notes block with the fixed warning and
\* the footnote's text under the prologue if one is open and under the
\* scene otherwise, whatever is open.
C14_FootnoteGetsNotesBlock ==
    [][(pc = "body_for" /\ page[idx].type = "footnote" /\ page[idx].text_ok)
       => /\ ~hist'.raised
          /\ hist'.added =
                 <<El("notes", PrologueOrSceneKind(self),
                      PrologueOrScene(self), ""),
                   El("p", "notes", PrologueOrScene(self), "warning"),
                   El("note", "notes", PrologueOrScene(self), "region")>>]_vars

\* A one-page run whose resolved region list is a header followed by a
\* heading
HeaderHeadingRun ==
    /\ file_list = <<1>>
    /\ Len(page) = 2
    /\ page[1].type = "header"
    /\ page[2].type = "heading"

\* The act of the header-heading run as it is written: its head with the
\* header's text, and one scene with the heading's text as head and the
\* stage holding the empty cast list.
OneActOneScene ==
    LET act == Element("act", 1)
    IN  <<[root |-> act,
           els  |-> <<El("act", "new", act, ""),
                      El("head", "act", act, "region"),
                      El("scene", "act", act, ""),
                      El("head", "scene", act, "region"),
                      El("stage", "scene", act, ""),
                      El("castList", "stage", act, "")>>]>>

\* C15: the header-heading run starts in body phase and never creates or
\* writes a front; when it has ended, the writer was handed exactly one
\* element, the act with the header's text as head and the one scene with
\* the heading's text and the empty cast list.  And whenever build_body
\* is applied to a readable heading while an act is open, the scene becomes
\* a new scene under that act.
C15_HeaderThenHeading ==
    /\ [](HeaderHeadingRun =>
             /\ pc \notin {"new", "start"} =>
                    /\ text_part = "body"
                    /\ self.front = None
                    /\ hist.frontFed = {}
             /\ pc = "done" =>
                    /\ xf = <<Element("act", 1)>>
                    /\ hist.out = OneActOneScene
                    /\ act_number = 1)
    /\ [][(pc = "body_for" /\ page[idx].type = "heading"
           /\ page[idx].text_ok /\ self.act # None)
          => /\ ~hist'.raised
             /\ self'.scene = self.act
             /\ self'.act = self.act
             /\ hist'.added =
                    <<El("scene", "act", self.act, ""),
                      El("head", "scene", self.act, "region"),
                      El("stage", "scene", self.act, ""),
                      El("castList", "stage", self.act, "")>>]_vars

\* The header-heading run has ended with its act written.
C15_Witness ==
    /\ HeaderHeadingRun
    /\ pc = "done"
    /\ hist.out = OneActOneScene
    /\ self.scene = Element("act", 1)

\* The smallest y among the points of a line
MinY(coords) ==
    CHOOSE y \in {p.y : p \in Range(coords)} :
        \A p \in Range(coords) : y <= p.y

\* The positions of the lines of the element that have the Coords asked for
WithCoords == {i \in DOMAIN pg.text_line : pg.text_line[i] # Missing}

\* C16: the resolved lines of a region are its lines with coordinates, each
\* once, with the smallest y of its points as y; their y never decreases
\* along the list, and lines of equal y stand in document order whatever
\* their x; lines with y = [30, 10, 20] are resolved to [10, 20, 30].
C16_LinesSortedByY ==
    (pg.stage = "region" /\ ~pg.raised) =>
        /\ {pg.line[k].doc : k \in DOMAIN pg.line} = WithCoords
        /\ Len(pg.line) = Cardinality(WithCoords)
        /\ \A k \in DOMAIN pg.line :
               pg.line[k].y = MinY(pg.text_line[pg.line[k].doc])
        /\ \A j, k \in DOMAIN pg.line :
               j < k =>
                   /\ pg.line[j].y <= pg.line[k].y
                   /\ pg.line[j].y = pg.line[k].y =>
                          pg.line[j].doc < pg.line[k].doc
        /\ (/\ Len(pg.text_line) = 3
            /\ WithCoords = DOMAIN pg.text_line
            /\ [i \in 1 .. 3 |-> MinY(pg.text_line[i])] = <<30, 10, 20>>)
           => [k \in 1 .. 3 |-> pg.line[k].y] = <<10, 20, 30>>

\* A region of three lines: the first of the document has the largest y and
\* is resolved last; the other two have the same y, the earlier one the
\* larger x, and keep their order.
C16_Witness ==
    /\ pg.stage = "region"
    /\ ~pg.raised
    /\ Len(pg.line) = 3
    /\ pg.line[3].doc = 1
    /\ pg.line[1].doc = 2
    /\ pg.line[2].doc = 3
    /\ pg.line[1].y = pg.line[2].y
    /\ pg.line[1].x > pg.line[2].x

\* C18 as stated: every build_body call on a readable caption returns and
\* places the caption by the previous type and the scenario: after a
\* header in the set block of the act that header opened (scenario set);
\* after a paragraph in a new stage block of the scene (scenario
\* paragraph); after a caption in the block of the current scenario; after
\* a credit, a heading or a normal caption as a stage direction under the
\* open speech if there is one, else under the prologue if one is open,
\* else under the scene (scenario normal).
C18_CaptionClassified ==
    [][(pc = "body_for" /\ page[idx].type = "caption" /\ page[idx].text_ok)
       => LET prev   == self.previous_type
              sc     == self.current_scenario
              normal == IF self.sp # None
                        THEN <<El("stage", "sp", self.sp, "region")>>
                        ELSE <<El("stage", PrologueOrSceneKind(self),
                                  PrologueOrScene(self), "region")>>
          IN  CASE prev = "header" ->
                     /\ ~hist'.raised
                     /\ self'.current_scenario = "set"
                     /\ self'.set = self.act
                     /\ hist'.added[Len(hist'.added)] =
                            El("p", "set", self.act, "region")
                [] prev = "paragraph" ->
                     /\ ~hist'.raised
                     /\ self'.current_scenario = "paragraph"
                     /\ hist'.added =
                            <<El("stage", "scene", self.scene, ""),
                              El("p", "stage", self.scene, "region")>>
                [] prev = "caption" /\ sc = "set" ->
                     /\ ~hist'.raised
                     /\ self'.current_scenario = "set"
                     /\ hist'.added = <<El("p", "set", self.set, "region")>>
                [] prev = "caption" /\ sc = "paragraph" ->
                     /\ ~hist'.raised
                     /\ self'.current_scenario = "paragraph"
                     /\ hist'.added =
                            <<El("p", "stage", self.stage, "region")>>
                [] prev \in {"credit", "heading"}
                   \/ (prev = "caption" /\ sc = "normal") ->
                     /\ ~hist'.raised
                     /\ self'.current_scenario = "normal"
                     /\ hist'.added = normal
                [] OTHER -> TRUE]_vars

\* C19 as stated: a build_front or build_body call that raises leaves the
\* fields of the transducer, the act counter and the writer as they were
\* and has created no element.
C19_FailedRegionHasNoEffect ==
    [][(/\ pc \in {"front_for", "body_for"}
        /\ hist'.lastOp \in {"build_front", "build_body"}
        /\ hist'.raised)
       => /\ self' = self
          /\ act_number' = act_number
          /\ xf' = xf
          /\ hist'.added = <<>>]_vars

\* C20 as stated: in front phase a title page is opened by a catch-word
\* exactly when its previous type is not catch-word and no title page was
\* finalized, and by no other region; a catch-word after finalization goes
\* to a preface block with the diagnostic; the finalization, once made by a
\* region of another type that follows a catch-word, stays; and at most one
\* title page is created in a run.
C20_OneTitlePage ==
    [][pc = "front_for" /\ hist'.lastOp = "build_front"
       => LET r == page[idx]
          IN  /\ TitlePagesIn(hist'.added) =
                     IF /\ r.type = "catch-word"
                        /\ self.previous_type # "catch-word"
                        /\ ~self.is_title_page_created
                     THEN 1 ELSE 0
              /\ (r.type = "catch-word" /\ self.is_title_page_created) =>
                     /\ Len(hist'.added) = 3
                     /\ hist'.added[1] = El("preface", "front", self.front, "")
                     /\ hist'.added[2] =
                            El("p", "preface", self.front, "warning")
              /\ self.is_title_page_created => self'.is_title_page_created
              /\ (r.type # "catch-word" /\ self.previous_type = "catch-word")
                     => self'.is_title_page_created
              /\ hist'.titlePages <= 1]_vars

\* C17: when create_tei is run a second time on the same folder, whatever
\* order glob.glob gives the files in, every step of the second run is
\* taken from the state the first run took that step from, the second run
\* ends after as many steps, and it ends where the first ended, with the
\* same fields and the same output.
C17_RerunIsIdentical ==
    hist.run = 2 =>
        /\ hist.same
        /\ Ended => /\ hist.step = Len(hist.trace)
                    /\ Final(hist.out) = hist.first

\* A second run over two files that glob.glob gave in another order than
\* for the first run, ended with a front and an act written.
C17_Witness ==
    /\ hist.run = 2
    /\ pc = "done"
    /\ Len(file_list) = 2
    /\ hist.glob # hist.glob1
    /\ hist.step = Len(hist.trace)
    /\ hist.step >= 6
    /\ Len(xf) >= 2
    /\ hist.out # <<>>

\* The index strings in the order Python gives to str: "0" < "1" < "10" <
\* "12" < "2"
StrOrder == <<<<0>>, <<1>>, <<1, 0>>, <<1, 2>>, <<2>>>>

StrRank(a) == CHOOSE k \in DOMAIN StrOrder : StrOrder[k] = a

\* The places of the TextEquiv children of the line that carry an index
Indexed == {i \in DOMAIN pg.text_line : pg.text_line[i].indexed}

\* C21: the text of a line is the text of the transcription alternative
\* whose index is the smallest as a string, so that "10" comes before "2"
\* (of several alternatives with that index, the first of the document),
\* and it is the empty string when no alternative carries an index.  The
\* call raises exactly when an alternative with an index has no Unicode
\* child.
C21_TextOfSmallestStringIndex ==
    pg.stage = "text" =>
        /\ pg.raised <=>
              \E i \in Indexed : pg.text_line[i].unicode = NoUnicode
        /\ ~pg.raised /\ Indexed = {} => pg.text = ""
        /\ ~pg.raised /\ Indexed # {} =>
              \E i \in Indexed :
                  /\ pg.text = pg.text_line[i].unicode
                  /\ \A j \in Indexed :
                        /\ StrRank(pg.text_line[i].index)
                              <= StrRank(pg.text_line[j].index)
                        /\ j < i => pg.text_line[j].index
                                       # pg.text_line[i].index

\* A line whose first alternative has index "2" and whose second has index
\* "10" and another text: the text of the second was returned
C21_Witness ==
    /\ pg.stage = "text"
    /\ Len(pg.text_line) = 2
    /\ pg.text_line[1] = [indexed |-> TRUE, index |-> <<2>>, unicode |-> "a"]
    /\ pg.text_line[2] = [indexed |-> TRUE, index |-> <<1, 0>>, unicode |-> "b"]
    /\ ~pg.raised
    /\ pg.text = "b"

\* The tags of the elements build_body has created so far
BuiltTags == {hist.built[i].tag : i \in DOMAIN hist.built}

\* C22: in the body phase a prologue and an act are never open at the same
\* time: a prologue is opened only while no act was ever opened, a header
\* that opens an act first writes the open prologue and clears it, and in
\* the output every prologue comes before every act.
C22_PrologueAndActExclusive ==
    /\ [](/\ ~(iselement(self.prologue) /\ iselement(self.act))
          /\ \A i, j \in DOMAIN xf :
                xf[i].kind = "act" /\ xf[j].kind = "prologue" => j < i)
    /\ [][/\ iselement(self'.prologue) /\ self'.prologue # self.prologue
               => self.act = None /\ "act" \notin BuiltTags
          /\ self'.act # self.act
               => /\ self'.prologue = None
                  /\ iselement(self.prologue)
                        => self.prologue \in Written(xf, xf')]_vars

\* A prologue was opened and written by the header that opened the first
\* act, and the act was written after it
C22_Witness ==
    /\ Len(xf) >= 2
    /\ \E i \in DOMAIN xf : \E j \in DOMAIN xf :
          i < j /\ xf[i].kind = "prologue" /\ xf[j].kind = "act"
    /\ self.prologue = None
    /\ iselement(self.act)
    /\ {"prologue", "act"} \subseteq BuiltTags

\* C23: content reaches the output in the order in which its regions were
\* consumed: a tree handed to the writer was not created before a tree
\* handed to the writer ahead of it (trees are numbered as they are
\* created).  In particular the paragraph and head a catch-word writes
\* while no scene is open do not come ahead of an act that an earlier
\* region opened and that is not written yet.
C23_OutputInConsumptionOrder ==
    \A i, j \in DOMAIN xf : i < j => xf[i].n <= xf[j].n

=============================================================================
